---------------------------- MODULE Spec2Model ----------------------------
(***************************************************************************)
(* The catalog of django_local_library (catalog/models.py) and its admin   *)
(* facade (catalog/admin.py) as a state machine.  The store holds the five *)
(* tables and the external user table; every admin operation is one action *)
(* that validates its form input as the field declarations prescribe and   *)
(* then writes, or fails and writes nothing.                               *)
(***************************************************************************)
EXTENDS Integers, Sequences, FiniteSets, TLC

(* ------------------------------- bounds -------------------------------- *)
\* Rows ever added to the tables (Spec).
MaxAdds == 6
\* Rows added to the tables after the initial ones (SpecNullify).
MaxLater == 6
\* Highest primary key of Genre, Language and Book where keys compete (SpecKeys).
MaxKeys == 2
\* Size of the pool of UUID values.
NumUUIDs == 2
\* Last day of the simulated calendar.
MaxDay == 5

(* ------------------------- values of the schema ------------------------ *)
\* null=True: the empty reference / unset date.  Primary keys and dates are >= 1.
None == 0
\* A form field left as the form presented it (models.fields.NOT_PROVIDED).
NotProvided == "NOT_PROVIDED"

\* Outcomes of an operation.
Ok == "ok"
ValidationError == "ValidationError"
\* on_delete=RESTRICT raises RestrictedError: the ProtectedReferenceError class.
ProtectedReferenceError == "RestrictedError"
\* The unique index of the store rejecting an INSERT.
IntegrityError == "IntegrityError"

LOAN_STATUS == {"m", "o", "a", "r"}

NameMaxLength == 200
AuthorNameMaxLength == 100
IsbnMaxLength == 13
StatusMaxLength == 1

VARIABLES genre, language, author, book, bookinstance, user,
          nextId, issued, today, txn, last

vars == <<genre, language, author, book, bookinstance, user,
          nextId, issued, today, txn, last>>
store == <<genre, language, author, book, bookinstance, user>>

(* ------------------------------- helpers ------------------------------- *)
Put(f, k, v) == [x \in (DOMAIN f) \cup {k} |-> IF x = k THEN v ELSE f[x]]
Remove(f, k) == [x \in (DOMAIN f) \ {k} |-> f[x]]
Empty == [x \in {} |-> None]
Rows(f) == DOMAIN f

\* CharField(max_length=n) with blank=False: required and at most n characters.
ValidChar(v, n) == v # "" /\ Len(v) <= n

\* unique=True on `field`: another row (not row id) already holds the value.
\* (Without unique=True nothing is compared.)
NoUniqueCheck(table, field, id, v) == FALSE
UniqueViolation(table, field, id, v) ==
    \E k \in (DOMAIN table) \ {id} : table[k][field] = v

\* What the staff user sees of the last operation: the value entered for the
\* key (or status) field, the id typed into an id field, the row concerned.
InstanceOutcome(op, arg, idIn, obj, result) ==
    [op |-> op, arg |-> arg, idIn |-> idIn, obj |-> obj, result |-> result]
Outcome(op, arg, obj, result) == InstanceOutcome(op, arg, None, obj, result)

(* -------------------------------- Genre -------------------------------- *)
GenreClean(id, name) ==
    IF ValidChar(name, NameMaxLength) /\ ~UniqueViolation(genre, "name", id, name)
    THEN Ok ELSE ValidationError

add_genre(name) ==
    /\ LET r == GenreClean(None, name) IN
       IF r = Ok
       THEN /\ genre' = Put(genre, nextId.genre, [name |-> name])
            /\ nextId' = [nextId EXCEPT !.genre = @ + 1]
            /\ last' = Outcome("add_genre", name, nextId.genre, r)
       ELSE /\ UNCHANGED <<genre, nextId>>
            /\ last' = Outcome("add_genre", name, None, r)
    /\ UNCHANGED <<language, author, book, bookinstance, user, issued, today, txn>>

change_genre(id, name) ==
    /\ id \in DOMAIN genre
    /\ LET r == GenreClean(id, name) IN
       /\ genre' = IF r = Ok THEN Put(genre, id, [name |-> name]) ELSE genre
       /\ last' = Outcome("change_genre", name, id, r)
    /\ UNCHANGED <<language, author, book, bookinstance, user, nextId, issued, today, txn>>

\* The rows of the Book.genre many-to-many table go with the Genre.
\* (Were the rows kept, Books would go on naming the Genre.)
GenreKept(id) == book
GenreDropped(id) ==
    [b \in DOMAIN book |-> [book[b] EXCEPT !.genre = @ \ {id}]]

delete_genre(id) ==
    /\ id \in DOMAIN genre
    /\ genre' = Remove(genre, id)
    /\ book' = GenreDropped(id)
    /\ last' = Outcome("delete_genre", genre[id].name, id, Ok)
    /\ UNCHANGED <<language, author, bookinstance, user, nextId, issued, today, txn>>

(* ------------------------------- Language ------------------------------ *)
LanguageClean(id, name) ==
    IF ValidChar(name, NameMaxLength) /\ ~UniqueViolation(language, "name", id, name)
    THEN Ok ELSE ValidationError

add_language(name) ==
    /\ LET r == LanguageClean(None, name) IN
       IF r = Ok
       THEN /\ language' = Put(language, nextId.language, [name |-> name])
            /\ nextId' = [nextId EXCEPT !.language = @ + 1]
            /\ last' = Outcome("add_language", name, nextId.language, r)
       ELSE /\ UNCHANGED <<language, nextId>>
            /\ last' = Outcome("add_language", name, None, r)
    /\ UNCHANGED <<genre, author, book, bookinstance, user, issued, today, txn>>

change_language(id, name) ==
    /\ id \in DOMAIN language
    /\ LET r == LanguageClean(id, name) IN
       /\ language' = IF r = Ok THEN Put(language, id, [name |-> name]) ELSE language
       /\ last' = Outcome("change_language", name, id, r)
    /\ UNCHANGED <<genre, author, book, bookinstance, user, nextId, issued, today, txn>>

\* Book.language: on_delete=SET_NULL.
\* (With DO_NOTHING the Books would go on naming the Language.)
LanguageKept(id) == book
LanguageNulled(id) ==
    [b \in DOMAIN book |->
        IF book[b].language = id THEN [book[b] EXCEPT !.language = None] ELSE book[b]]

delete_language(id) ==
    /\ id \in DOMAIN language
    /\ language' = Remove(language, id)
    /\ book' = LanguageNulled(id)
    /\ last' = Outcome("delete_language", language[id].name, id, Ok)
    /\ UNCHANGED <<genre, author, bookinstance, user, nextId, issued, today, txn>>

(* -------------------------------- Author ------------------------------- *)
AuthorClean(last_name) ==
    IF ValidChar(last_name, AuthorNameMaxLength) THEN Ok ELSE ValidationError

add_author(last_name) ==
    /\ LET r == AuthorClean(last_name) IN
       IF r = Ok
       THEN /\ author' = Put(author, nextId.author, [last_name |-> last_name])
            /\ nextId' = [nextId EXCEPT !.author = @ + 1]
            /\ last' = Outcome("add_author", last_name, nextId.author, r)
       ELSE /\ UNCHANGED <<author, nextId>>
            /\ last' = Outcome("add_author", last_name, None, r)
    /\ UNCHANGED <<genre, language, book, bookinstance, user, issued, today, txn>>

change_author(id, last_name) ==
    /\ id \in DOMAIN author
    /\ LET r == AuthorClean(last_name) IN
       /\ author' = IF r = Ok THEN Put(author, id, [last_name |-> last_name]) ELSE author
       /\ last' = Outcome("change_author", last_name, id, r)
    /\ UNCHANGED <<genre, language, book, bookinstance, user, nextId, issued, today, txn>>

\* Book.author: on_delete=RESTRICT.
\* (Without RESTRICT no Book would hold the Author back.)
AuthorUnrestricted(id) == FALSE
AuthorRestricted(id) == \E b \in DOMAIN book : book[b].author = id

delete_author(id) ==
    /\ id \in DOMAIN author
    /\ IF AuthorRestricted(id)
       THEN /\ UNCHANGED author
            /\ last' = Outcome("delete_author", author[id].last_name, id,
                               ProtectedReferenceError)
       ELSE /\ author' = Remove(author, id)
            /\ last' = Outcome("delete_author", author[id].last_name, id, Ok)
    /\ UNCHANGED <<genre, language, book, bookinstance, user, nextId, issued, today, txn>>

(* --------------------------------- Book -------------------------------- *)
\* author, genre and language are blank=False: the form requires each, and a
\* chosen reference must be a row of its table.
BookClean(id, title, a, isbn, gs, l) ==
    IF /\ ValidChar(title, NameMaxLength)
       /\ a \in DOMAIN author
       /\ ValidChar(isbn, IsbnMaxLength)
       /\ ~UniqueViolation(book, "isbn", id, isbn)
       /\ gs # {} /\ gs \subseteq DOMAIN genre
       /\ l \in DOMAIN language
    THEN Ok ELSE ValidationError

BookRow(title, a, isbn, gs, l) ==
    [title |-> title, author |-> a, isbn |-> isbn, genre |-> gs, language |-> l]

add_book(title, a, isbn, gs, l) ==
    /\ LET r == BookClean(None, title, a, isbn, gs, l) IN
       IF r = Ok
       THEN /\ book' = Put(book, nextId.book, BookRow(title, a, isbn, gs, l))
            /\ nextId' = [nextId EXCEPT !.book = @ + 1]
            /\ last' = Outcome("add_book", isbn, nextId.book, r)
       ELSE /\ UNCHANGED <<book, nextId>>
            /\ last' = Outcome("add_book", isbn, None, r)
    /\ UNCHANGED <<genre, language, author, bookinstance, user, issued, today, txn>>

change_book(id, title, a, isbn, gs, l) ==
    /\ id \in DOMAIN book
    /\ LET r == BookClean(id, title, a, isbn, gs, l) IN
       /\ book' = IF r = Ok THEN Put(book, id, BookRow(title, a, isbn, gs, l)) ELSE book
       /\ last' = Outcome("change_book", isbn, id, r)
    /\ UNCHANGED <<genre, language, author, bookinstance, user, nextId, issued, today, txn>>

\* BookInstance.book: on_delete=RESTRICT.
\* (Without RESTRICT no BookInstance would hold the Book back.)
BookUnrestricted(id) == FALSE
BookRestricted(id) == \E i \in DOMAIN bookinstance : bookinstance[i].book = id

delete_book(id) ==
    /\ id \in DOMAIN book
    /\ IF BookRestricted(id)
       THEN /\ UNCHANGED book
            /\ last' = Outcome("delete_book", book[id].isbn, id, ProtectedReferenceError)
       ELSE /\ book' = Remove(book, id)
            /\ last' = Outcome("delete_book", book[id].isbn, id, Ok)
    /\ UNCHANGED <<genre, language, author, bookinstance, user, nextId, issued, today, txn>>

(* ----------------------------- BookInstance ---------------------------- *)
UUIDs == 1..NumUUIDs

\* status: choices=LOAN_STATUS, blank=True, max_length=1.  An empty value skips
\* the choices check and blank=True lets it pass.
\* (Without choices any status would pass.)
StatusCleanLax(status) == TRUE
StatusClean(status) ==
    \/ status = ""
    \/ (Len(status) <= StatusMaxLength /\ status \in LOAN_STATUS)

\* status: default="m", used when the form leaves the field as presented.
\* (Without default="m" the form would start empty.)
StatusDefaultEmpty == ""
StatusDefault == "m"

StatusOf(statusIn) == IF statusIn = NotProvided THEN StatusDefault ELSE statusIn

\* book is blank=False; borrower and due_back are blank=True, null=True.
BookInstanceClean(b, u, imprint, due, status) ==
    IF /\ b \in DOMAIN book
       /\ (u = None \/ u \in user)
       /\ ValidChar(imprint, NameMaxLength)
       /\ StatusClean(status)
    THEN Ok ELSE ValidationError

BookInstanceRow(b, u, imprint, due, status) ==
    [book |-> b, borrower |-> u, imprint |-> imprint, due_back |-> due,
     status |-> status]

\* id: default=uuid.uuid4, a value no BookInstance has had.
uuid4 == UUIDs \ issued

\* The add form shows id (fieldsets) prefilled with uuid4(); idIn = None leaves
\* it as presented, any other idIn is what the staff user typed over it.  The
\* primary key is checked for uniqueness when adding.
SaveNewBookInstance(op, idIn, b, u, imprint, due, statusIn) ==
    LET status == StatusOf(statusIn)
        r == IF idIn \in DOMAIN bookinstance THEN ValidationError
             ELSE BookInstanceClean(b, u, imprint, due, status)
    IN  /\ \E id \in (IF idIn = None THEN uuid4 ELSE {idIn}) :
             IF r = Ok
             THEN /\ bookinstance' =
                        Put(bookinstance, id, BookInstanceRow(b, u, imprint, due, status))
                  /\ issued' = issued \cup {id}
                  /\ last' = InstanceOutcome(op, statusIn, idIn, id, r)
             ELSE /\ UNCHANGED <<bookinstance, issued>>
                  /\ last' = InstanceOutcome(op, statusIn, idIn, None, r)
        /\ UNCHANGED <<genre, language, author, book, user, nextId, today, txn>>

add_bookinstance(idIn, b, u, imprint, due, statusIn) ==
    SaveNewBookInstance("add_bookinstance", idIn, b, u, imprint, due, statusIn)

\* BookInstanceInLine: a new row of the Book's change form; book is the parent.
add_bookinstance_inline(parent, idIn, u, imprint, due, statusIn) ==
    /\ parent \in DOMAIN book
    /\ SaveNewBookInstance("add_bookinstance_inline", idIn, parent, u, imprint, due,
                           statusIn)

\* The change form posts id too.  When editing, the primary key is not checked
\* for uniqueness, and save() updates the row with the posted id or inserts it;
\* the row the form was opened on is written only when the id is left alone.
change_bookinstance(i, idIn, b, u, imprint, due, status) ==
    /\ i \in DOMAIN bookinstance
    /\ LET r == BookInstanceClean(b, u, imprint, due, status) IN
       IF r = Ok
       THEN /\ bookinstance' =
                  Put(bookinstance, idIn, BookInstanceRow(b, u, imprint, due, status))
            /\ issued' = issued \cup {idIn}
            /\ last' = InstanceOutcome("change_bookinstance", status, idIn, i, r)
       ELSE /\ UNCHANGED <<bookinstance, issued>>
            /\ last' = InstanceOutcome("change_bookinstance", status, idIn, i, r)
    /\ UNCHANGED <<genre, language, author, book, user, nextId, today, txn>>

delete_bookinstance(i) ==
    /\ i \in DOMAIN bookinstance
    /\ bookinstance' = Remove(bookinstance, i)
    /\ last' = Outcome("delete_bookinstance", bookinstance[i].status, i, Ok)
    /\ UNCHANGED <<genre, language, author, book, user, nextId, issued, today, txn>>

(* ----------------------- users (settings.AUTH_USER_MODEL) -------------- *)
add_user ==
    /\ user' = user \cup {nextId.user}
    /\ nextId' = [nextId EXCEPT !.user = @ + 1]
    /\ last' = Outcome("add_user", "", nextId.user, Ok)
    /\ UNCHANGED <<genre, language, author, book, bookinstance, issued, today, txn>>

\* BookInstance.borrower: on_delete=SET_NULL.
BorrowerNulled(u) ==
    [i \in DOMAIN bookinstance |->
        IF bookinstance[i].borrower = u
        THEN [bookinstance[i] EXCEPT !.borrower = None] ELSE bookinstance[i]]

delete_user(u) ==
    /\ u \in user
    /\ user' = user \ {u}
    /\ bookinstance' = BorrowerNulled(u)
    /\ last' = Outcome("delete_user", "", u, Ok)
    /\ UNCHANGED <<genre, language, author, book, nextId, issued, today, txn>>

(* ------------------ the operations of the admin facade ----------------- *)
\* Each group takes whether the model may still add a row to the table (the
\* bound on its primary keys) and the values the staff user may enter.  For a
\* BookInstance form, ids are the values typed into the id field; the form may
\* also be posted with the id as presented.
GenreOps(mayAdd, names) ==
    \/ mayAdd /\ \E n \in names : add_genre(n)
    \/ \E g \in DOMAIN genre, n \in names : change_genre(g, n)
    \/ \E g \in DOMAIN genre : delete_genre(g)

LanguageOps(mayAdd, names) ==
    \/ mayAdd /\ \E n \in names : add_language(n)
    \/ \E l \in DOMAIN language, n \in names : change_language(l, n)
    \/ \E l \in DOMAIN language : delete_language(l)

AuthorOps(mayAdd, names) ==
    \/ mayAdd /\ \E n \in names : add_author(n)
    \/ \E a \in DOMAIN author, n \in names : change_author(a, n)
    \/ \E a \in DOMAIN author : delete_author(a)

BookOps(mayAdd, titles, authors, isbns, genresets, languages) ==
    \/ /\ mayAdd
       /\ \E t \in titles, a \in authors, n \in isbns, gs \in genresets,
             l \in languages : add_book(t, a, n, gs, l)
    \/ \E b \in DOMAIN book, t \in titles, a \in authors, n \in isbns,
          gs \in genresets, l \in languages : change_book(b, t, a, n, gs, l)
    \/ \E b \in DOMAIN book : delete_book(b)

BookInstanceOps(mayAdd, ids, books, users, dues, addStatus, changeStatus) ==
    \/ /\ mayAdd
       /\ \E idIn \in ids \cup {None}, b \in books, u \in users, d \in dues,
             s \in addStatus : add_bookinstance(idIn, b, u, "Penguin", d, s)
    \/ /\ mayAdd
       /\ \E p \in DOMAIN book, idIn \in ids \cup {None}, u \in users, d \in dues,
             s \in addStatus : add_bookinstance_inline(p, idIn, u, "Penguin", d, s)
    \/ \E i \in DOMAIN bookinstance, b \in books, u \in users, d \in dues,
          s \in changeStatus :
            \E idIn \in ids \cup {i} : change_bookinstance(i, idIn, b, u, "Penguin", d, s)
    \/ \E i \in DOMAIN bookinstance : delete_bookinstance(i)

UserOps(mayAdd) ==
    \/ mayAdd /\ add_user
    \/ \E u \in user : delete_user(u)

(* ------------------------- Spec: the whole catalog --------------------- *)
InitStore ==
    /\ genre = Empty /\ language = Empty /\ author = Empty
    /\ book = Empty /\ bookinstance = Empty /\ user = {}
    /\ nextId = [genre |-> 1, language |-> 1, author |-> 1, book |-> 1, user |-> 1]
    /\ issued = {}
    /\ today = 1
    /\ txn = Empty
    /\ last = Outcome("init", "", None, Ok)

Init == InitStore

\* Rows added so far: the primary keys counted out, and the UUIDs used.
Added ==
    (nextId.genre - 1) + (nextId.language - 1) + (nextId.author - 1)
        + (nextId.book - 1) + (nextId.user - 1) + Cardinality(issued)

\* A reference entered in a form: a stored row, or the next (absent) id.
RefInputs(table, next) == Rows(table) \cup {next}

Next ==
    \/ GenreOps(Added < MaxAdds, {"Drama"})
    \/ LanguageOps(Added < MaxAdds, {"English"})
    \/ AuthorOps(Added < MaxAdds, {"Austen"})
    \/ BookOps(Added < MaxAdds, {"Emma"}, RefInputs(author, nextId.author),
               {"9780141439518"}, {{g} : g \in RefInputs(genre, nextId.genre)},
               RefInputs(language, nextId.language))
    \/ BookInstanceOps(Added < MaxAdds, UUIDs, RefInputs(book, nextId.book),
                       {None} \cup user, {None}, {NotProvided}, {"a"})
    \/ UserOps(Added < MaxAdds)

Spec == Init /\ [][Next]_vars

(* ------------- SpecKeys: Genre, Language and Book keys compete --------- *)
Names == {"Drama", "drama", ""}
Isbns == {"9780141439518", "9780140449136", "97801414395180"}

\* The store after add_author("Austen").
InitKeys ==
    /\ genre = Empty /\ language = Empty
    /\ author = Put(Empty, 1, [last_name |-> "Austen"])
    /\ book = Empty /\ bookinstance = Empty /\ user = {}
    /\ nextId = [genre |-> 1, language |-> 1, author |-> 2, book |-> 1, user |-> 1]
    /\ issued = {}
    /\ today = 1
    /\ txn = Empty
    /\ last = Outcome("add_author", "Austen", 1, Ok)

\* Every Book form names the first Author, Genre and Language.
NextKeys ==
    \/ GenreOps(nextId.genre <= MaxKeys, Names)
    \/ LanguageOps(nextId.language <= MaxKeys, Names)
    \/ BookOps(nextId.book <= MaxKeys, {"Emma"}, {1}, Isbns, {{1}}, {1})

SpecKeys == InitKeys /\ [][NextKeys]_vars

(* ------------- SpecNullify: deleting Languages and borrowers ----------- *)
\* The store after add_author("Austen"), add_genre("Drama").
InitNullify ==
    /\ genre = Put(Empty, 1, [name |-> "Drama"])
    /\ language = Empty
    /\ author = Put(Empty, 1, [last_name |-> "Austen"])
    /\ book = Empty /\ bookinstance = Empty /\ user = {}
    /\ nextId = [genre |-> 2, language |-> 1, author |-> 2, book |-> 1, user |-> 1]
    /\ issued = {}
    /\ today = 1
    /\ txn = Empty
    /\ last = Outcome("add_genre", "Drama", 1, Ok)

\* Rows added since InitNullify, which holds two.
AddedLater == Added - 2

\* Languages, Books, BookInstances and users are added; Languages and users
\* are deleted.
NextNullify ==
    \/ AddedLater < MaxLater /\ \E n \in {"English", "French"} : add_language(n)
    \/ \E l \in Rows(language) : delete_language(l)
    \/ /\ AddedLater < MaxLater
       /\ \E n \in {"9780141439518", "9780140449136"}, l \in Rows(language) :
             add_book("Emma", 1, n, {1}, l)
    \/ /\ AddedLater < MaxLater
       /\ \E b \in Rows(book), u \in {None} \cup user, s \in {NotProvided, "a"} :
             add_bookinstance(None, b, u, "Penguin", None, s)
    \/ AddedLater < MaxLater /\ add_user
    \/ \E u \in user : delete_user(u)

SpecNullify == InitNullify /\ [][NextNullify]_vars

(* ------------- SpecInstances: the BookInstance forms ------------------- *)
StatusInputs == {"o", "", "x", "mo"}

\* The store after one Genre, Language, Author, Book and user were added.
InitInstances ==
    /\ genre = Put(Empty, 1, [name |-> "Drama"])
    /\ language = Put(Empty, 1, [name |-> "English"])
    /\ author = Put(Empty, 1, [last_name |-> "Austen"])
    /\ book = Put(Empty, 1, BookRow("Emma", 1, "9780141439518", {1}, 1))
    /\ bookinstance = Empty /\ user = {1}
    /\ nextId = [genre |-> 2, language |-> 2, author |-> 2, book |-> 2, user |-> 2]
    /\ issued = {}
    /\ today = 1
    /\ txn = Empty
    /\ last = Outcome("add_book", "9780141439518", 1, Ok)

NextInstances ==
    BookInstanceOps(TRUE, UUIDs, {None, 1}, {None, 1}, {None},
                    StatusInputs \cup {NotProvided}, StatusInputs)

SpecInstances == InitInstances /\ [][NextInstances]_vars

(* ------------- SpecOverdue: BookInstance.is_overdue -------------------- *)
\* bool(self.due_back and date.today() > self.due_back); a date is never falsy.
\* (With >= the due day itself would count as overdue.)
is_overdue_inclusive(due_back, day) == due_back # None /\ day >= due_back
is_overdue(due_back, day) == due_back # None /\ day > due_back

PyBool(b) == IF b THEN "True" ELSE "False"

\* Reading the property, as the list and detail pages do.
read_is_overdue(i) ==
    /\ i \in DOMAIN bookinstance
    /\ last' = Outcome("is_overdue", PyBool(is_overdue(bookinstance[i].due_back, today)),
                       i, Ok)
    /\ UNCHANGED <<genre, language, author, book, bookinstance, user, nextId, issued,
                   today, txn>>

\* date.today() moves on.
next_day ==
    /\ today < MaxDay
    /\ today' = today + 1
    /\ last' = Outcome("next_day", "", None, Ok)
    /\ UNCHANGED <<genre, language, author, book, bookinstance, user, nextId, issued,
                   txn>>

\* The store after one Genre, Language, Author, Book and BookInstance were added.
InitOverdue ==
    /\ genre = Put(Empty, 1, [name |-> "Drama"])
    /\ language = Put(Empty, 1, [name |-> "English"])
    /\ author = Put(Empty, 1, [last_name |-> "Austen"])
    /\ book = Put(Empty, 1, BookRow("Emma", 1, "9780141439518", {1}, 1))
    /\ bookinstance = Put(Empty, 1, BookInstanceRow(1, None, "Penguin", None, "m"))
    /\ user = {}
    /\ nextId = [genre |-> 2, language |-> 2, author |-> 2, book |-> 2, user |-> 1]
    /\ issued = {1}
    /\ today = 1
    /\ txn = Empty
    /\ last = InstanceOutcome("add_bookinstance", NotProvided, None, 1, Ok)

\* The staff user sets and clears due_back and the loan status of the copy.
NextOverdue ==
    \/ \E i \in Rows(bookinstance), d \in {None} \cup (1..MaxDay), s \in {"o", "a"} :
          change_bookinstance(i, i, 1, None, "Penguin", d, s)
    \/ \E i \in Rows(bookinstance) : read_is_overdue(i)
    \/ next_day

SpecOverdue == InitOverdue /\ [][NextOverdue]_vars

(* ------------- SpecConcurrent: two requests adding the same key -------- *)
\* A request validates its form (full_clean with validate_unique, a SELECT) and
\* then saves (an INSERT, which the unique index of the column can reject).
\* Requests of different staff users interleave between the two.
Procs == {"p", "q"}
Tables == {"genre", "language", "book"}
KeysOf(t) == IF t = "book" THEN {"9780141439518", "9780140449136"}
             ELSE {"Drama", "Poetry"}

FormClean(t, k) ==
    CASE t = "genre" -> GenreClean(None, k)
      [] t = "language" -> LanguageClean(None, k)
      [] t = "book" -> BookClean(None, "Emma", 1, k, {1}, 1)

IndexViolation(t, k) ==
    CASE t = "genre" -> UniqueViolation(genre, "name", None, k)
      [] t = "language" -> UniqueViolation(language, "name", None, k)
      [] t = "book" -> UniqueViolation(book, "isbn", None, k)

Insert(t, k) ==
    CASE t = "genre" ->
            /\ genre' = Put(genre, nextId.genre, [name |-> k])
            /\ UNCHANGED <<language, book>>
      [] t = "language" ->
            /\ language' = Put(language, nextId.language, [name |-> k])
            /\ UNCHANGED <<genre, book>>
      [] t = "book" ->
            /\ book' = Put(book, nextId.book, BookRow("Emma", 1, k, {1}, 1))
            /\ UNCHANGED <<genre, language>>

validate(p) ==
    /\ txn[p].pc = "validate"
    /\ LET r == FormClean(txn[p].table, txn[p].key) IN
       txn' = [txn EXCEPT ![p].pc = IF r = Ok THEN "save" ELSE "done",
                          ![p].result = r]
    /\ UNCHANGED <<genre, language, author, book, bookinstance, user, nextId, issued,
                   today, last>>

save(p) ==
    /\ txn[p].pc = "save"
    /\ LET t == txn[p].table
           k == txn[p].key
       IN  IF IndexViolation(t, k)
           THEN /\ txn' = [txn EXCEPT ![p].pc = "done", ![p].result = IntegrityError]
                /\ UNCHANGED <<genre, language, book, nextId>>
           ELSE /\ Insert(t, k)
                /\ nextId' = [nextId EXCEPT ![t] = @ + 1]
                /\ txn' = [txn EXCEPT ![p].pc = "done", ![p].result = Ok]
    /\ UNCHANGED <<author, bookinstance, user, issued, today, last>>

\* The store after one Genre, Language and Author were added; each request
\* is about to post an add form.
InitConcurrent ==
    /\ genre = Put(Empty, 1, [name |-> "Novel"])
    /\ language = Put(Empty, 1, [name |-> "English"])
    /\ author = Put(Empty, 1, [last_name |-> "Austen"])
    /\ book = Empty /\ bookinstance = Empty /\ user = {}
    /\ nextId = [genre |-> 2, language |-> 2, author |-> 2, book |-> 1, user |-> 1]
    /\ issued = {}
    /\ today = 1
    /\ txn \in [Procs -> UNION {[table : {t}, key : KeysOf(t), pc : {"validate"},
                                 result : {"pending"}] : t \in Tables}]
    /\ last = Outcome("add_author", "Austen", 1, Ok)

NextConcurrent ==
    \/ \E p \in Procs : validate(p)
    \/ \E p \in Procs : save(p)

SpecConcurrent == InitConcurrent /\ [][NextConcurrent]_vars

(* ============================== properties ============================= *)
WellFormed(v, n) == v # "" /\ Len(v) <= n

(* ----------------------------------------------------------------------- *)
(* C1  Genre names, Language names and Book ISBNs stay unique: no two rows *)
(* of one table hold the same key (compared exactly, so "Drama" and        *)
(* "drama" differ) in any state reached by add/change/delete; an add whose *)
(* key a row already holds fails with ValidationError and changes nothing; *)
(* an add with a well-formed key no row holds (the form otherwise valid)   *)
(* succeeds and stores a row with that key.                                *)
(* ----------------------------------------------------------------------- *)
KeysDistinct(table, field) ==
    \A j, k \in Rows(table) : j # k => table[j][field] # table[k][field]

C1_NoDuplicateKeys ==
    /\ KeysDistinct(genre, "name")
    /\ KeysDistinct(language, "name")
    /\ KeysDistinct(book, "isbn")

C1_AddStep(op, table, tableNext, field, maxlen, otherwiseValid) ==
    last'.op = op =>
        IF \E k \in Rows(table) : table[k][field] = last'.arg
        THEN last'.result = ValidationError /\ UNCHANGED store
        ELSE (WellFormed(last'.arg, maxlen) /\ otherwiseValid) =>
                /\ last'.result = Ok
                /\ last'.obj \notin Rows(table)
                /\ Rows(tableNext) = Rows(table) \cup {last'.obj}
                /\ tableNext[last'.obj][field] = last'.arg
                /\ \A k \in Rows(table) : tableNext[k] = table[k]

C1_UniqueKeys ==
    /\ []C1_NoDuplicateKeys
    /\ [][/\ C1_AddStep("add_genre", genre, genre', "name", NameMaxLength, TRUE)
          /\ C1_AddStep("add_language", language, language', "name", NameMaxLength,
                        TRUE)
          /\ C1_AddStep("add_book", book, book', "isbn", IsbnMaxLength,
                        1 \in Rows(author) /\ 1 \in Rows(genre)
                            /\ 1 \in Rows(language))]_vars

\* A second Book with the ISBN of a stored one was just refused, while two
\* Genres and two Languages are stored.
C1_Witness ==
    /\ last.op = "add_book" /\ last.result = ValidationError
    /\ \E b \in Rows(book) : book[b].isbn = last.arg
    /\ Cardinality(Rows(genre)) = 2 /\ Cardinality(Rows(language)) = 2

(* ----------------------------------------------------------------------- *)
(* C2  Deleting an Author that a Book references fails with                *)
(* ProtectedReferenceError and leaves the Author, the Books and everything *)
(* else as they were; deleting an Author no Book references succeeds and   *)
(* removes exactly that Author.                                            *)
(* ----------------------------------------------------------------------- *)
C2_DeleteAuthorRestricted ==
    [][last'.op = "delete_author" =>
         IF \E b \in Rows(book) : book[b].author = last'.obj
         THEN /\ last'.result = ProtectedReferenceError
              /\ last'.obj \in Rows(author')
              /\ UNCHANGED store
         ELSE /\ last'.result = Ok
              /\ author' = Remove(author, last'.obj)
              /\ UNCHANGED <<genre, language, book, bookinstance, user>>]_vars

\* The delete of a referenced Author was just refused.
C2_Witness ==
    /\ last.op = "delete_author" /\ last.result = ProtectedReferenceError
    /\ \E b \in Rows(book) : book[b].author = last.obj /\ last.obj \in Rows(author)

(* ----------------------------------------------------------------------- *)
(* C3  Order of deletes: a delete of a Book succeeds exactly when no       *)
(* BookInstance references it and a delete of an Author exactly when no    *)
(* Book references it; a delete attempted earlier fails with               *)
(* ProtectedReferenceError and removes nothing; a delete of a BookInstance *)
(* always succeeds.  So instances, then the Book, then the Author go       *)
(* through, and no other order does.                                       *)
(* ----------------------------------------------------------------------- *)
C3_Blocked(op, table, tableNext, referenced) ==
    last'.op = op =>
        /\ last'.obj \in Rows(table)
        /\ last'.result = IF referenced THEN ProtectedReferenceError ELSE Ok
        /\ Rows(tableNext) = IF referenced THEN Rows(table)
                             ELSE Rows(table) \ {last'.obj}

C3_DeleteOrder ==
    [][/\ C3_Blocked("delete_book", book, book',
                     \E i \in Rows(bookinstance) : bookinstance[i].book = last'.obj)
       /\ C3_Blocked("delete_author", author, author',
                     \E b \in Rows(book) : book[b].author = last'.obj)
       /\ C3_Blocked("delete_bookinstance", bookinstance, bookinstance', FALSE)]_vars

\* The scenario ran to its end: a Book and two BookInstances existed, and the
\* Author was just deleted after them.
C3_Witness ==
    /\ last.op = "delete_author" /\ last.result = Ok
    /\ nextId.book > 1 /\ Cardinality(issued) >= 2
    /\ Rows(author) = {} /\ Rows(book) = {} /\ Rows(bookinstance) = {}

(* ----------------------------------------------------------------------- *)
(* C4  Deleting a Language or a user always succeeds; every Book that      *)
(* referenced the Language (every BookInstance that had the user as        *)
(* borrower) is still stored, with that reference empty and its other      *)
(* attributes as before; all other rows of all tables are unchanged.       *)
(* ----------------------------------------------------------------------- *)
C4_Nulled(table, tableNext, field) ==
    /\ Rows(tableNext) = Rows(table)
    /\ \A k \in Rows(table) :
         IF table[k][field] = last'.obj
         THEN /\ tableNext[k][field] = None
              /\ \A f \in (DOMAIN table[k]) \ {field} : tableNext[k][f] = table[k][f]
         ELSE tableNext[k] = table[k]

C4_SetNullOnDelete ==
    [][/\ last'.op = "delete_language" =>
            /\ last'.result = Ok
            /\ language' = Remove(language, last'.obj)
            /\ C4_Nulled(book, book', "language")
            /\ UNCHANGED <<genre, author, bookinstance, user>>
       /\ last'.op = "delete_user" =>
            /\ last'.result = Ok
            /\ user' = user \ {last'.obj}
            /\ C4_Nulled(bookinstance, bookinstance', "borrower")
            /\ UNCHANGED <<genre, language, author, book>>]_vars

\* A borrower was just deleted and left a BookInstance behind without one; an
\* earlier delete of a Language left one Book without a language, while
\* another Book still has its own.
C4_Witness ==
    /\ last.op = "delete_user" /\ last.obj \notin user
    /\ \E i \in Rows(bookinstance) : bookinstance[i].borrower = None
    /\ \E b, c \in Rows(book) :
         /\ book[b].language = None
         /\ book[c].language \in Rows(language)

(* ----------------------------------------------------------------------- *)
(* C5  Two concurrent requests adding the same new key (Genre name,        *)
(* Language name or Book ISBN): however their validate and save steps      *)
(* interleave, the table never holds two rows with the key, and once both  *)
(* requests are done exactly one has succeeded, the other has failed on    *)
(* the unique constraint (the form's ValidationError, or the unique index  *)
(* rejecting the INSERT), and the table holds exactly one row with the key.*)
(* ----------------------------------------------------------------------- *)
UniqueConstraintFailure == {ValidationError, IntegrityError}

Holding(t, k) ==
    CASE t = "genre" -> {g \in Rows(genre) : genre[g].name = k}
      [] t = "language" -> {l \in Rows(language) : language[l].name = k}
      [] t = "book" -> {b \in Rows(book) : book[b].isbn = k}

SameKey(p, q) ==
    p # q /\ txn[p].table = txn[q].table /\ txn[p].key = txn[q].key

C6_AsClaimed ==
    \A i \in Rows(bookinstance) : bookinstance[i].status \in LOAN_STATUS

(* ----------------------------------------------------------------------- *)
(* C6 as amended: the status of every stored BookInstance is one of the    *)
(* four codes m, o, a, r or empty; an add or change (direct or inline)     *)
(* whose status is neither one of the four codes nor empty fails with      *)
(* ValidationError and writes nothing.                                     *)
(* ----------------------------------------------------------------------- *)
InstanceForms == {"add_bookinstance", "add_bookinstance_inline", "change_bookinstance"}

C6_StatusStored ==
    \A i \in Rows(bookinstance) : bookinstance[i].status \in LOAN_STATUS \cup {""}

C6_StatusEnumerated ==
    /\ []C6_StatusStored
    /\ [][(/\ last'.op \in InstanceForms
           /\ last'.arg \notin LOAN_STATUS \cup {"", NotProvided}) =>
             /\ last'.result = ValidationError
             /\ UNCHANGED store]_vars

\* A form with status "x" was just refused, while a BookInstance saved with an
\* empty status is stored.
C6_Witness ==
    /\ last.op \in InstanceForms /\ last.arg = "x" /\ last.result = ValidationError
    /\ \E i \in Rows(bookinstance) : bookinstance[i].status = ""

(* ----------------------------------------------------------------------- *)
(* C7 as claimed: the identifier of a BookInstance is generated at         *)
(* creation and never supplied or changed by the staff user: every row     *)
(* that appears in the table was added by a form whose id field was left   *)
(* alone, under an identifier no BookInstance had before, and a change     *)
(* form neither adds a row nor writes a row other than the one it was      *)
(* opened on.                                                              *)
(* ----------------------------------------------------------------------- *)
C7_AsClaimed ==
    [][/\ \A i \in Rows(bookinstance') \ Rows(bookinstance) :
            /\ i \notin issued
            /\ last'.op \in {"add_bookinstance", "add_bookinstance_inline"}
            /\ last'.idIn = None
       /\ last'.op = "change_bookinstance" =>
            \A i \in Rows(bookinstance) \ {last'.obj} :
                i \in Rows(bookinstance') /\ bookinstance'[i] = bookinstance[i]]_vars

(* ----------------------------------------------------------------------- *)
(* C8  A BookInstance added with no explicit status, directly or as an     *)
(* inline row of its Book, is stored with status "m" (Maintenance),        *)
(* whatever its other attributes.                                          *)
(* ----------------------------------------------------------------------- *)
C8_DefaultMaintenance ==
    (/\ last.op \in {"add_bookinstance", "add_bookinstance_inline"}
     /\ last.arg = NotProvided
     /\ last.result = Ok) =>
        /\ last.obj \in Rows(bookinstance)
        /\ bookinstance[last.obj].status = "m"

\* An inline row with a borrower and no explicit status was just added.
C8_Witness ==
    /\ last.op = "add_bookinstance_inline" /\ last.arg = NotProvided
    /\ last.result = Ok
    /\ last.obj \in Rows(bookinstance)
    /\ bookinstance[last.obj].borrower # None

(* ----------------------------------------------------------------------- *)
(* C9  is_overdue is True exactly when due_back is set and lies strictly   *)
(* before today: False when due_back is unset, False when due_back is      *)
(* today or later; reading it changes nothing stored.                      *)
(* ----------------------------------------------------------------------- *)
C9_IsOverdue ==
    [][last'.op = "is_overdue" =>
         LET due == bookinstance[last'.obj].due_back IN
         /\ last'.arg = IF due = None THEN "False"
                        ELSE IF due < today THEN "True" ELSE "False"
         /\ UNCHANGED <<store, today>>]_vars

\* is_overdue was just read as False on the very day the copy is due back.
C9_Witness ==
    /\ last.op = "is_overdue" /\ last.arg = "False"
    /\ last.obj \in Rows(bookinstance)
    /\ bookinstance[last.obj].due_back = today

(* ----------------------------------------------------------------------- *)
(* C10  Referential integrity: in every state every non-empty Book.author, *)
(* Book.language, BookInstance.book and BookInstance.borrower names a      *)
(* stored row, and every genre of a Book is a stored Genre; deleting a     *)
(* Genre succeeds and takes it out of the genre set of every Book, leaving *)
(* the Books otherwise unchanged.                                          *)
(* ----------------------------------------------------------------------- *)
C10_References ==
    /\ \A b \in Rows(book) :
         /\ book[b].author \in Rows(author) \cup {None}
         /\ book[b].language \in Rows(language) \cup {None}
         /\ book[b].genre \subseteq Rows(genre)
    /\ \A i \in Rows(bookinstance) :
         /\ bookinstance[i].book \in Rows(book) \cup {None}
         /\ bookinstance[i].borrower \in user \cup {None}

C10_ReferentialIntegrity ==
    /\ []C10_References
    /\ [][last'.op = "delete_genre" =>
            /\ last'.result = Ok
            /\ genre' = Remove(genre, last'.obj)
            /\ Rows(book') = Rows(book)
            /\ \A b \in Rows(book) :
                 /\ book'[b].genre = book[b].genre \ {last'.obj}
                 /\ \A f \in (DOMAIN book[b]) \ {"genre"} : book'[b][f] = book[b][f]
            /\ UNCHANGED <<language, author, bookinstance, user>>]_vars

\* The Genre of a stored Book was just deleted; the Book, with a BookInstance
\* that has a borrower, is still there, its genre set empty.
C10_Witness ==
    /\ last.op = "delete_genre"
    /\ \E b \in Rows(book) : book[b].genre = {} /\ book[b].author \in Rows(author)
    /\ \E i \in Rows(bookinstance) : bookinstance[i].borrower \in user

=============================================================================
